---------------------------- MODULE Spec2Model ----------------------------
(***************************************************************************)
(* Model of the per-guild playback session of src/bot/music.py:            *)
(*   - class MusicQueue (add, get_next, clear, skip), and                  *)
(*   - class Music (get_queue, play_next, _join_voice, _play_music) with   *)
(*     the voice client's player and its `after` callback.                 *)
(* Two specifications share the module:                                    *)
(*   SpecQueue  one MusicQueue object driven by arbitrary calls of its     *)
(*              methods, from every value of its public attributes;        *)
(*   Spec       the Music cog: requests, track ends and scheduled          *)
(*              play_next coroutines of several guilds, interleaved.       *)
(***************************************************************************)
EXTENDS Integers, Sequences, FiniteSets, TLC

\* Python's None (music.py:136, `self.current = None`); tracks are 1..N.
None == 0

\* ------------------------------------------------------------------ bounds
\* Number of distinct sources the queue-level specification draws from.
NumTracks == 2
\* Longest pending list the queue-level specification builds with add.
MaxQueue == 3
\* Number of get_next results the queue-level history records.
MaxGets == 5

\* Number of guilds the cog serves.
NumGuilds == 2
\* Number of play requests, over all guilds, that search a source; the k-th
\* of a guild creates that guild's source k.
MaxRequests == 3

\* Number of times a voice connection is lost, over all guilds.
MaxDisconnects == 1

Tracks == 1 .. NumTracks
Guilds == 1 .. NumGuilds
Sources == 1 .. MaxRequests

VARIABLES
    mq,         \* SpecQueue: the MusicQueue object under test
    cur0,       \* SpecQueue: value of mq.current at the start
    enqueued,   \* SpecQueue: sources passed to add, in call order
    returned,   \* SpecQueue: results of the get_next calls made after them
    phase,      \* SpecQueue: "adding", "getting" (history is add* get_next*), "off"
    result,     \* SpecQueue: the last method call and what it returned
    queues,         \* Music.queues: guild id -> MusicQueue
    voice_clients,  \* Music.voice_clients: guild id -> voice client
    reqs,           \* _play_music coroutines awaiting YTDLSource.create_source
    scheduled,      \* play_next coroutines submitted by `after`, not yet run
    nreq,           \* guild id -> number of its play requests that searched a source
    ndisc,          \* number of voice connections lost so far
    superseded,     \* (guild, source) whose playback a Stop ended (SpecStop only)
    lastOp          \* what the last step of the cog did

qvars == <<mq, cur0, enqueued, returned, phase, result>>

svars == <<queues, voice_clients, reqs, scheduled, nreq, ndisc, superseded,
          lastOp>>

vars == <<mq, cur0, enqueued, returned, phase, result,
          queues, voice_clients, reqs, scheduled, nreq, ndisc, superseded,
          lastOp>>

\* ------------------------------------------------------------- MusicQueue

\* MusicQueue.__init__
NewQueue ==
    [queue |-> <<>>, current |-> None, loop_song |-> FALSE, loop_queue |-> FALSE]

\* add putting the source at the head of the list.
add_front(q, source) ==
    [q EXCEPT !.queue = <<source>> \o q.queue]

\* MusicQueue.add
add(q, source) ==
    [q EXCEPT !.queue = Append(q.queue, source)]

\* get_next with the head taken from the wrong end of the list.
get_next_lifo(q) ==
    IF q.loop_song /\ q.current # None
    THEN [q |-> q, ret |-> q.current]
    ELSE IF q.queue = <<>>
    THEN [q |-> q, ret |-> None]
    ELSE LET n == Len(q.queue)
             next_song == q.queue[n]
             rest == SubSeq(q.queue, 1, n - 1)
             requeued == IF q.loop_queue /\ q.current # None
                         THEN Append(rest, q.current) ELSE rest
         IN  [q |-> [q EXCEPT !.queue = requeued, !.current = next_song],
              ret |-> next_song]

\* get_next with the loop flags tested in the wrong order of precedence.
get_next_queueFirst(q) ==
    IF q.loop_song /\ q.current # None /\ ~q.loop_queue
    THEN [q |-> q, ret |-> q.current]
    ELSE IF q.queue = <<>>
    THEN [q |-> q, ret |-> None]
    ELSE LET next_song == Head(q.queue)
             rest == Tail(q.queue)
             requeued == IF q.loop_queue /\ q.current # None
                         THEN Append(rest, q.current) ELSE rest
         IN  [q |-> [q EXCEPT !.queue = requeued, !.current = next_song],
              ret |-> next_song]

\* get_next re-inserting the finished track at the head instead of the tail.
get_next_requeueHead(q) ==
    IF q.loop_song /\ q.current # None
    THEN [q |-> q, ret |-> q.current]
    ELSE IF q.queue = <<>>
    THEN [q |-> q, ret |-> None]
    ELSE LET next_song == Head(q.queue)
             rest == Tail(q.queue)
             requeued == IF q.loop_queue /\ q.current # None
                         THEN <<q.current>> \o rest ELSE rest
         IN  [q |-> [q EXCEPT !.queue = requeued, !.current = next_song],
              ret |-> next_song]

\* get_next discarding the finished track even when loop_queue is set.
get_next_noRequeue(q) ==
    IF q.loop_song /\ q.current # None
    THEN [q |-> q, ret |-> q.current]
    ELSE IF q.queue = <<>>
    THEN [q |-> q, ret |-> None]
    ELSE [q |-> [q EXCEPT !.queue = Tail(q.queue), !.current = Head(q.queue)],
          ret |-> Head(q.queue)]

\* MusicQueue.get_next: the queue after the call and the value returned.
get_next(q) ==
    IF q.loop_song /\ q.current # None
    THEN [q |-> q, ret |-> q.current]
    ELSE IF q.queue = <<>>
    THEN [q |-> q, ret |-> None]
    ELSE LET next_song == Head(q.queue)
             rest == Tail(q.queue)
             requeued == IF q.loop_queue /\ q.current # None
                         THEN Append(rest, q.current) ELSE rest
         IN  [q |-> [q EXCEPT !.queue = requeued, !.current = next_song],
              ret |-> next_song]

\* MusicQueue.clear
clear(q) ==
    [q EXCEPT !.queue = <<>>, !.current = None]

\* MusicQueue.skip
skip(q) ==
    get_next(q)

\* ------------------------------------------------------------ Music cog

\* A dict with no keys (Music.queues and Music.voice_clients at construction).
EmptyDict == [k \in {} |-> None]

NoOp ==
    [op |-> "init", guild |-> None, track |-> None, ret |-> None,
     raised |-> "", position |-> 0, err |-> FALSE, by |-> "",
     joined |-> FALSE, idle |-> FALSE]

\* Music.__init__, with nothing requested yet.
CogIdle ==
    /\ queues = EmptyDict
    /\ voice_clients = EmptyDict
    /\ reqs = {}
    /\ scheduled = {}
    /\ nreq = [g \in Guilds |-> 0]
    /\ ndisc = 0
    /\ superseded = {}
    /\ lastOp = NoOp

\* The object under test of SpecQueue, while the cog runs.
QueueIdle ==
    /\ mq = NewQueue
    /\ cur0 = None
    /\ enqueued = <<>>
    /\ returned = <<>>
    /\ phase = "off"
    /\ result = [op |-> "init", ret |-> None]

\* ------------------------------------------------- SpecQueue: one queue

\* A constructed queue whose public attributes current, loop_song and
\* loop_queue have been set by its owner to any value.
InitQueue ==
    /\ \E c \in Tracks \cup {None}, ls \in BOOLEAN, lq \in BOOLEAN :
          /\ mq = [NewQueue EXCEPT !.current = c, !.loop_song = ls, !.loop_queue = lq]
          /\ cur0 = c
    /\ enqueued = <<>>
    /\ returned = <<>>
    /\ phase = "adding"
    /\ result = [op |-> "init", ret |-> None]
    /\ CogIdle

HistoryOff ==
    /\ phase' = "off"
    /\ enqueued' = <<>>
    /\ returned' = <<>>

Add(source) ==
    /\ Len(mq.queue) < MaxQueue
    /\ mq' = add(mq, source)
    /\ result' = [op |-> "add", ret |-> None]
    /\ IF phase = "adding"
       THEN /\ enqueued' = Append(enqueued, source)
            /\ UNCHANGED <<returned, phase>>
       ELSE HistoryOff
    /\ UNCHANGED <<cur0, svars>>

GetNext ==
    LET r == get_next(mq) IN
    /\ mq' = r.q
    /\ result' = [op |-> "get_next", ret |-> r.ret]
    /\ IF phase \in {"adding", "getting"} /\ Len(returned) < MaxGets
       THEN /\ phase' = "getting"
            /\ returned' = Append(returned, r.ret)
            /\ UNCHANGED enqueued
       ELSE HistoryOff
    /\ UNCHANGED <<cur0, svars>>

Skip ==
    LET r == skip(mq) IN
    /\ mq' = r.q
    /\ result' = [op |-> "skip", ret |-> r.ret]
    /\ HistoryOff
    /\ UNCHANGED <<cur0, svars>>

Clear ==
    /\ mq' = clear(mq)
    /\ result' = [op |-> "clear", ret |-> None]
    /\ HistoryOff
    /\ UNCHANGED <<cur0, svars>>

NextQueue ==
    \/ \E source \in Tracks : Add(source)
    \/ GetNext
    \/ Skip
    \/ Clear

SpecQueue == InitQueue /\ [][NextQueue]_vars

\* -------------------------------------------------- Spec: the Music cog

\* get_queue storing a new queue on every call.
get_queue_alwaysNew(qs, guild_id) ==
    (guild_id :> NewQueue) @@ qs

\* get_queue rebuilding the registry when it adds a guild.
get_queue_resetsOthers(qs, guild_id) ==
    IF guild_id \notin DOMAIN qs
    THEN [h \in DOMAIN qs \cup {guild_id} |-> NewQueue]
    ELSE qs

\* Music.get_queue: the registry after the call; the queue returned is its
\* entry for guild_id.
get_queue(qs, guild_id) ==
    IF guild_id \notin DOMAIN qs THEN (guild_id :> NewQueue) @@ qs ELSE qs

\* The queue get_queue would hand out for a guild.
QueueOf(g) == get_queue(queues, g)[g]

\* guild.voice_client / ctx.voice_client is set: the guild has a connected
\* client (a disconnected one stays in Music.voice_clients, never removed).
HasVoiceClient(g) ==
    g \in DOMAIN voice_clients /\ voice_clients[g].connected

\* What the guild's connected client is playing, None when there is none.
Playing(g) ==
    IF HasVoiceClient(g) THEN voice_clients[g].playing ELSE None

\* _join_voice that connects and forgets to record the client.
join_voice_noStore(vcs, g) ==
    vcs

\* _join_voice without a client: channel.connect() and the new client stored
\* in Music.voice_clients.
join_voice(vcs, g) ==
    (g :> [connected |-> TRUE, playing |-> None, by |-> ""]) @@ vcs

\* self.voice_clients.get(guild.id) as seen by the caller: no client, the
\* connected client, or a client that has been disconnected.
client_of(vcs, g) ==
    IF g \notin DOMAIN vcs THEN "none"
    ELSE IF vcs[g].connected THEN "live" ELSE "dead"

\* voice_client.play(source, after=...): refused with ClientException when
\* the client is not connected or is already playing.
play(vc, source, by) ==
    IF ~vc.connected THEN [vc |-> vc, raised |-> "not_connected"]
    ELSE IF vc.playing # None THEN [vc |-> vc, raised |-> "playing"]
    ELSE [vc |-> [vc EXCEPT !.playing = source, !.by = by], raised |-> ""]

\* The `after` callback submitting play_next whatever the player reports.
after_always(sched, g, track, e) ==
    sched \cup {[guild |-> g, track |-> track]}

\* The `after` callback of both play calls: play_next is submitted to the
\* event loop unless the player reports an error, which is only logged.
after(sched, g, track, e) ==
    IF ~e THEN sched \cup {[guild |-> g, track |-> track]} ELSE sched

\* Number of sources requested so far, over the guilds of S.
RECURSIVE Requested(_)
Requested(S) ==
    IF S = {} THEN 0
    ELSE LET g == CHOOSE x \in S : TRUE
         IN  nreq[g] + Requested(S \ {g})

Init ==
    /\ CogIdle
    /\ QueueIdle

\* _play_music up to the await of create_source: the requester must be in a
\* voice channel; without a voice client the bot joins the requester's.
PlayBegin(g, inVoice) ==
    /\ Requested(Guilds) < MaxRequests
    /\ IF ~inVoice
       THEN /\ lastOp' = [NoOp EXCEPT !.op = "not_in_voice", !.guild = g]
            /\ UNCHANGED <<voice_clients, reqs, nreq>>
       ELSE LET joins == ~HasVoiceClient(g)
                vcs == IF joins THEN join_voice(voice_clients, g)
                       ELSE voice_clients
            IN  /\ nreq' = [nreq EXCEPT ![g] = @ + 1]
                /\ voice_clients' = vcs
                /\ reqs' = reqs \cup {[id |-> nreq[g] + 1, guild |-> g,
                                       client |-> client_of(vcs, g),
                                       joined |-> joins]}
                /\ lastOp' = [NoOp EXCEPT !.op = "begin", !.guild = g,
                                          !.track = nreq[g] + 1, !.joined = joins,
                                          !.idle = (Playing(g) = None)]
    /\ UNCHANGED <<queues, scheduled, ndisc, superseded, qvars>>

\* _play_music without the return after "Not Found": the missing source is
\* enqueued all the same.
ResolveFailed_enqueues(r) ==
    /\ reqs' = reqs \ {r}
    /\ queues' = [get_queue(queues, r.guild) EXCEPT
                    ![r.guild] = add(get_queue(queues, r.guild)[r.guild], r.id)]
    /\ lastOp' = [NoOp EXCEPT !.op = "not_found", !.guild = r.guild,
                              !.track = r.id, !.joined = r.joined]
    /\ UNCHANGED <<voice_clients, scheduled, nreq, ndisc, superseded, qvars>>

\* _play_music when create_source returns None: "Not Found", return.
ResolveFailed(r) ==
    /\ reqs' = reqs \ {r}
    /\ lastOp' = [NoOp EXCEPT !.op = "not_found", !.guild = r.guild,
                              !.track = r.id, !.joined = r.joined]
    /\ UNCHANGED <<queues, voice_clients, scheduled, nreq, ndisc, superseded, qvars>>

\* _play_music deciding without the is_playing() test: every resolved request
\* calls voice_client.play.
PlayResolved_noCheck(r) ==
    LET g == r.guild
        source == r.id
        qs == get_queue(queues, g)
        live == r.client = "live"
        base == [NoOp EXCEPT !.guild = g, !.track = source, !.joined = r.joined,
                             !.idle = (Playing(g) = None)]
        p == IF live THEN play(voice_clients[g], source, "request")
             ELSE [vc |-> None, raised |-> "not_connected"]
    IN  /\ reqs' = reqs \ {r}
        /\ queues' = [qs EXCEPT ![g].current = source]
        /\ voice_clients' = IF live
                            THEN [voice_clients EXCEPT ![g] = p.vc]
                            ELSE voice_clients
        /\ lastOp' = [base EXCEPT
                        !.op = IF p.raised = "" THEN "play" ELSE "play_failed",
                        !.raised = p.raised]
        /\ UNCHANGED <<scheduled, nreq, ndisc, superseded, qvars>>

\* _play_music from the return of create_source with a source to its end:
\* start the source if the client held is not playing, else enqueue it.
PlayResolved(r) ==
    LET g == r.guild
        source == r.id
        qs == get_queue(queues, g)
        live == r.client = "live"
        is_playing == live /\ voice_clients[g].playing # None
        base == [NoOp EXCEPT !.guild = g, !.track = source, !.joined = r.joined,
                             !.idle = (Playing(g) = None)]
    IN  /\ reqs' = reqs \ {r}
        /\ IF r.client # "none" /\ ~is_playing
           THEN LET p == IF live THEN play(voice_clients[g], source, "request")
                         ELSE [vc |-> None, raised |-> "not_connected"]
                IN  /\ queues' = [qs EXCEPT ![g].current = source]
                    /\ voice_clients' = IF live
                                        THEN [voice_clients EXCEPT ![g] = p.vc]
                                        ELSE voice_clients
                    /\ lastOp' = [base EXCEPT
                                    !.op = IF p.raised = "" THEN "play"
                                           ELSE "play_failed",
                                    !.raised = p.raised]
           ELSE /\ queues' = [qs EXCEPT ![g] = add(qs[g], source)]
                /\ lastOp' = [base EXCEPT !.op = "enqueue",
                                          !.position = Len(qs[g].queue) + 1]
                /\ UNCHANGED voice_clients
        /\ UNCHANGED <<scheduled, nreq, ndisc, superseded, qvars>>

\* The player of guild g runs out of audio (e = FALSE) or fails (e = TRUE):
\* the client stops playing and the player thread calls `after`.
TrackEnds(g, e) ==
    /\ Playing(g) # None
    /\ voice_clients' = [voice_clients EXCEPT ![g].playing = None]
    /\ scheduled' = after(scheduled, g, Playing(g), e)
    /\ lastOp' = [NoOp EXCEPT !.op = "after", !.guild = g, !.track = Playing(g),
                              !.err = e, !.by = voice_clients[g].by]
    /\ UNCHANGED <<queues, reqs, nreq, ndisc, superseded, qvars>>

\* Music.play_next, run by the event loop for one submitted completion.
PlayNext(s) ==
    LET g == s.guild
        qs == get_queue(queues, g)
        base == [NoOp EXCEPT !.guild = g, !.track = s.track,
                             !.idle = (Playing(g) = None)]
    IN  /\ scheduled' = scheduled \ {s}
        /\ IF ~HasVoiceClient(g)
           THEN /\ queues' = qs
                /\ lastOp' = [base EXCEPT !.op = "play_next_return"]
                /\ UNCHANGED voice_clients
           ELSE LET r == get_next(qs[g])
                    p == IF r.ret # None
                         THEN play(voice_clients[g], r.ret, "advance")
                         ELSE [vc |-> voice_clients[g], raised |-> ""]
                IN  /\ queues' = [qs EXCEPT ![g] = r.q]
                    /\ voice_clients' = [voice_clients EXCEPT ![g] = p.vc]
                    /\ lastOp' = [base EXCEPT !.op = "play_next", !.ret = r.ret,
                                              !.raised = p.raised]
        /\ UNCHANGED <<reqs, nreq, ndisc, superseded, qvars>>

\* The voice connection of guild g is lost: the client stops its player,
\* which calls `after` without error, and is no longer connected; coroutines
\* that hold the client keep the disconnected object.
Disconnect(g) ==
    /\ HasVoiceClient(g)
    /\ ndisc < MaxDisconnects
    /\ ndisc' = ndisc + 1
    /\ voice_clients' = [voice_clients EXCEPT ![g].connected = FALSE,
                                              ![g].playing = None]
    /\ scheduled' = IF Playing(g) # None
                    THEN after(scheduled, g, Playing(g), FALSE)
                    ELSE scheduled
    /\ reqs' = {IF r.guild = g /\ r.client = "live"
                THEN [r EXCEPT !.client = "dead"] ELSE r : r \in reqs}
    /\ lastOp' = [NoOp EXCEPT !.op = "disconnect", !.guild = g,
                              !.track = Playing(g)]
    /\ UNCHANGED <<queues, nreq, superseded, qvars>>

Next ==
    \/ \E g \in Guilds, inVoice \in BOOLEAN : PlayBegin(g, inVoice)
    \/ \E r \in reqs : ResolveFailed(r)
    \/ \E r \in reqs : PlayResolved(r)
    \/ \E g \in Guilds, e \in BOOLEAN : TrackEnds(g, e)
    \/ \E s \in scheduled : PlayNext(s)
    \/ \E g \in Guilds : Disconnect(g)

Spec == Init /\ [][Next]_vars

\* Stop of a playing session, as the design describes it (the command is not
\* part of music.py): stop the transport, whose player then calls `after`
\* without error, and clear the queue.
Stop(g) ==
    /\ Playing(g) # None
    /\ voice_clients' = [voice_clients EXCEPT ![g].playing = None]
    /\ scheduled' = after(scheduled, g, Playing(g), FALSE)
    /\ queues' = [get_queue(queues, g) EXCEPT ![g] = clear(QueueOf(g))]
    /\ superseded' = superseded \cup {[guild |-> g, track |-> Playing(g)]}
    /\ lastOp' = [NoOp EXCEPT !.op = "stop", !.guild = g, !.track = Playing(g)]
    /\ UNCHANGED <<reqs, nreq, ndisc, qvars>>

NextStop ==
    \/ Next
    \/ \E g \in Guilds : Stop(g)

SpecStop == Init /\ [][NextStop]_vars

\* ------------------------------------------------------ queue-level claims

\* The history is add(t1..tn) followed by k get_next calls.
AddsThenGets == phase \in {"adding", "getting"}

\* C1: with both loop flags false and current initially absent, after
\* add(t1..tn) the k-th get_next call returns tk for k <= n and None for
\* k > n; pending holds exactly the entries not yet returned, so every
\* enqueued entry is returned exactly once, in the order of the add calls.
C1_FifoOrder ==
    (AddsThenGets /\ ~mq.loop_song /\ ~mq.loop_queue /\ cur0 = None) =>
        LET n == Len(enqueued)
            k == Len(returned)
            served == IF k < n THEN k ELSE n
        IN  /\ \A i \in 1 .. k :
                  returned[i] = IF i <= n THEN enqueued[i] ELSE None
            /\ mq.queue = SubSeq(enqueued, served + 1, n)

\* C1 witness: three entries were enqueued, all were returned and two further
\* calls were made after the queue ran out.
C1_Witness ==
    /\ phase = "getting" /\ ~mq.loop_song /\ ~mq.loop_queue /\ cur0 = None
    /\ Len(enqueued) = 3 /\ enqueued[1] # enqueued[2]
    /\ Len(returned) = 5 /\ returned[5] = None

\* C2 (as claimed): a get_next call made with pending empty, outside the
\* loop_song branch, returns None and leaves current absent and pending empty.
C2_ExhaustedClearsCurrent ==
    [][(result'.op = "get_next" /\ mq.queue = <<>>
            /\ ~(mq.loop_song /\ mq.current # None))
        => (result'.ret = None /\ mq'.current = None /\ mq'.queue = <<>>)]_vars

\* C9: a get_next call made with loop_song true and a current track present
\* returns that track and changes nothing of the queue (pending, current and
\* both flags), whatever pending holds and whatever loop_queue is.
C9_LoopSongIdempotent ==
    [][(result'.op = "get_next" /\ mq.loop_song /\ mq.current # None)
        => (result'.ret = mq.current /\ mq' = mq)]_vars

\* C9 witness: with both flags true, a current track and two pending entries,
\* get_next was called three times and returned the current track.
C9_Witness ==
    /\ phase = "getting" /\ mq.loop_song /\ mq.loop_queue
    /\ cur0 # None /\ mq.current = cur0
    /\ Len(mq.queue) = 2 /\ mq.queue[1] # cur0
    /\ Len(returned) = 3 /\ result.op = "get_next" /\ result.ret = cur0

\* C10: with loop_queue true, loop_song false, current initially absent and
\* t1..tn (n >= 2) enqueued, the k-th get_next call returns t((k-1) mod n + 1),
\* never None; after k >= 1 calls pending followed by current is t1..tn
\* rotated by k places, so the rotation goes on for ever.
C10_LoopQueueCycles ==
    (AddsThenGets /\ mq.loop_queue /\ ~mq.loop_song /\ cur0 = None
            /\ Len(enqueued) >= 2) =>
        LET n == Len(enqueued)
            k == Len(returned)
            ring == Append(mq.queue, mq.current)
        IN  /\ \A i \in 1 .. k : returned[i] = enqueued[((i - 1) % n) + 1]
            /\ k >= 1 => /\ Len(ring) = n
                         /\ \A i \in 1 .. n : ring[i] = enqueued[((k + i - 1) % n) + 1]

\* C10 witness: three entries were enqueued and five get_next calls made, the
\* fourth returning the first entry again.
C10_Witness ==
    /\ phase = "getting" /\ mq.loop_queue /\ ~mq.loop_song /\ cur0 = None
    /\ Len(enqueued) = 3 /\ enqueued[1] # enqueued[2]
    /\ Len(returned) = 5 /\ returned[4] = enqueued[1]


\* C11 (as claimed): skip returns what get_next would and leaves the queue as
\* get_next would; called with a current track, pending empty and both loop
\* flags false it returns None and leaves current absent.
C11_SkipExhausts ==
    [][result'.op = "skip" =>
          /\ result'.ret = get_next(mq).ret
          /\ mq' = get_next(mq).q
          /\ (mq.current # None /\ mq.queue = <<>>
                  /\ ~mq.loop_song /\ ~mq.loop_queue) =>
                (result'.ret = None /\ mq'.current = None)
      ]_vars

\* C16: a get_next call made with pending = [p1..pn], n >= 1, outside the
\* loop_song branch returns p1 and makes it current; pending becomes
\* [p2..pn, c] when loop_queue is set and the previous current c was present,
\* [p2..pn] otherwise; both flags are unchanged.
C16_PopAndRequeue ==
    [][(result'.op = "get_next" /\ mq.queue # <<>>
            /\ ~(mq.loop_song /\ mq.current # None)) =>
          /\ result'.ret = mq.queue[1]
          /\ mq'.current = mq.queue[1]
          /\ mq'.queue = IF mq.loop_queue /\ mq.current # None
                         THEN SubSeq(mq.queue, 2, Len(mq.queue)) \o <<mq.current>>
                         ELSE SubSeq(mq.queue, 2, Len(mq.queue))
          /\ mq'.loop_song = mq.loop_song
          /\ mq'.loop_queue = mq.loop_queue
      ]_vars

\* C16 witness: with loop_queue set and a current track c, one get_next call
\* on three pending entries returned the first and left [p2, p3, c].
C16_Witness ==
    /\ phase = "getting" /\ mq.loop_queue /\ ~mq.loop_song /\ cur0 # None
    /\ Len(enqueued) = 3 /\ Len(returned) = 1
    /\ enqueued[1] # cur0
    /\ result.op = "get_next" /\ result.ret = enqueued[1]
    /\ mq.current = enqueued[1]
    /\ mq.queue = <<enqueued[2], enqueued[3], cur0>>

\* ------------------------------------------------------ session-level claims

\* The steps that end _play_music with a source in hand.
Decided(op) == op \in {"play", "enqueue", "play_failed"}

\* C3 (as claimed): a request that starts its track leaves the session
\* playing it with current set to it, and a successful completion handled
\* with pending empty and the transport idle leaves the session idle with
\* current absent.
C3_PlayThenExhaust ==
    LET g == lastOp.guild IN
    /\ lastOp.op = "play" =>
          (Playing(g) = lastOp.track /\ QueueOf(g).current = lastOp.track)
    /\ (lastOp.op = "play_next" /\ lastOp.idle /\ lastOp.ret = None) =>
          (Playing(g) = None /\ QueueOf(g).current = None)

\* C4: a request resolved while the guild's client is playing is enqueued
\* (unless it holds a client that has since been disconnected): its source
\* becomes the last element of pending, at the 1-based position reported,
\* current and the transport are unchanged; a request is started only when
\* the transport is idle. A completion handled with the transport connected
\* and idle and pending non-empty pops the head of pending, starts it and
\* makes it current.
C4_EnqueueThenAdvance ==
    [][LET g == lastOp'.guild
           before == QueueOf(g)
       IN  /\ lastOp'.op = "enqueue" =>
                 /\ ~lastOp'.idle
                 /\ queues'[g].queue = Append(before.queue, lastOp'.track)
                 /\ queues'[g].current = before.current
                 /\ voice_clients' = voice_clients
                 /\ lastOp'.position = Len(queues'[g].queue)
                 /\ queues'[g].queue[lastOp'.position] = lastOp'.track
           /\ lastOp'.op = "play" => lastOp'.idle
           /\ (lastOp'.op = "play_next" /\ lastOp'.idle /\ before.queue # <<>>) =>
                 /\ lastOp'.ret = Head(before.queue)
                 /\ lastOp'.raised = ""
                 /\ voice_clients'[g].playing = lastOp'.ret
                 /\ queues'[g].current = lastOp'.ret
                 /\ queues'[g].queue = Tail(before.queue)
      ]_vars

\* C4 witness: the guild's second source was enqueued behind the first, the
\* first completed, and play_next popped and started the second.
C4_Witness ==
    /\ lastOp.op = "play_next" /\ lastOp.track = 1 /\ lastOp.ret = 2
    /\ lastOp.raised = ""
    /\ Playing(lastOp.guild) = 2
    /\ QueueOf(lastOp.guild).current = 2

\* C5 (as claimed): no play call is ever issued on a client that is already
\* playing a track.
C5_NoStartWhilePlaying ==
    lastOp.raised # "playing"

\* C6 (as claimed): the completion of a track whose playback a Stop ended is
\* dropped by play_next before get_next is called.
C6_StaleSignalIgnored ==
    (lastOp.op \in {"play_next", "play_next_return"}
        /\ [guild |-> lastOp.guild, track |-> lastOp.track] \in superseded)
    => lastOp.op = "play_next_return"

\* C7: when the player reports an error, play_next is not submitted: the
\* queues (pending, current, flags) are unchanged, nothing is started and the
\* guild's client is idle; whoever started the track.
C7_ErrorDoesNotAdvance ==
    [][(lastOp'.op = "after" /\ lastOp'.err) =>
          /\ queues' = queues
          /\ scheduled' = scheduled
          /\ reqs' = reqs
          /\ voice_clients'[lastOp'.guild].playing = None
          /\ voice_clients'[lastOp'.guild].connected
      ]_vars

\* C7 witness: a track started by play_next failed while another track was
\* waiting in pending, and nothing is scheduled for the guild.
C7_Witness ==
    /\ lastOp.op = "after" /\ lastOp.err /\ lastOp.by = "advance"
    /\ QueueOf(lastOp.guild).queue # <<>>
    /\ QueueOf(lastOp.guild).current = lastOp.track
    /\ Playing(lastOp.guild) = None
    /\ \A s \in scheduled : s.guild # lastOp.guild

C12_FailedRequestChangesNothing ==
    lastOp.op = "not_found" => ~lastOp.joined

\* C12 (amended): the failure itself changes neither the queues, nor the
\* voice clients, nor the submitted completions, and starts nothing; the
\* request's first step changes no queue and no connected client, and binds a
\* new idle client exactly when the guild had no connected one.
C12_FailureKeepsQueueAndJoin ==
    [][LET g == lastOp'.guild IN
       /\ lastOp'.op = "not_found" =>
             /\ UNCHANGED <<queues, voice_clients, scheduled, nreq>>
             /\ reqs' \subseteq reqs
             /\ Cardinality(reqs \ reqs') = 1
       /\ lastOp'.op = "begin" =>
             /\ UNCHANGED <<queues, scheduled>>
             /\ \A h \in Guilds :
                   HasVoiceClient(h) =>
                      (h \in DOMAIN voice_clients'
                          /\ voice_clients'[h] = voice_clients[h])
             /\ ~HasVoiceClient(g) =>
                   (lastOp'.joined /\ g \in DOMAIN voice_clients'
                       /\ voice_clients'[g].connected
                       /\ voice_clients'[g].playing = None)
      ]_vars

\* C12 witness: a request that joined the voice channel failed to find its
\* source; the client it bound is still there, idle, and the guild has no
\* queue yet.
C12_Witness ==
    /\ lastOp.op = "not_found" /\ lastOp.joined
    /\ HasVoiceClient(lastOp.guild)
    /\ Playing(lastOp.guild) = None
    /\ lastOp.guild \notin DOMAIN queues

\* The queues one call of add, get_next or an assignment of current can make
\* of q.
Touched(q) ==
    {q, get_next(q).q}
        \cup {add(q, src) : src \in Sources}
        \cup {[q EXCEPT !.current = src] : src \in Sources}

\* C13: for a guild not in the registry get_queue stores and returns a new
\* empty queue and keeps every other entry; for a guild in the registry it
\* returns the stored queue and changes nothing. No step of the cog removes
\* an entry or replaces it by another queue: an entry only changes by a
\* method call or an assignment on the queue it already holds.
C13_RegistryKeepsQueues ==
    [][/\ \A g \in Guilds :
             LET qs == get_queue(queues, g) IN
             /\ DOMAIN qs = DOMAIN queues \cup {g}
             /\ \A h \in DOMAIN queues : qs[h] = queues[h]
             /\ g \notin DOMAIN queues => qs[g] = NewQueue
       /\ \A g \in DOMAIN queues :
             /\ g \in DOMAIN queues'
             /\ queues'[g] \in Touched(queues[g])
       /\ \A g \in DOMAIN queues' \ DOMAIN queues :
             queues'[g] \in Touched(NewQueue)
      ]_vars

\* C13 witness: both guilds have a queue, and get_queue was called again for
\* a guild whose queue already held its current source, to enqueue another.
C13_Witness ==
    /\ DOMAIN queues = Guilds
    /\ lastOp.op = "enqueue" /\ lastOp.position = 1
    /\ queues[lastOp.guild].queue = <<lastOp.track>>
    /\ queues[lastOp.guild].current # None
    /\ \A g \in Guilds : queues[g].current # None

\* What the cog holds for guild h.
GuildState(h) ==
    [queue |-> IF h \in DOMAIN queues THEN <<queues[h]>> ELSE <<>>,
     client |-> IF h \in DOMAIN voice_clients THEN <<voice_clients[h]>> ELSE <<>>,
     reqs |-> {r \in reqs : r.guild = h},
     scheduled |-> {s \in scheduled : s.guild = h},
     nreq |-> nreq[h]]

\* C14: a step taken for one guild (a request, a source found or not found,
\* a track end, a play_next, a lost connection) leaves every other guild's
\* queue (pending, current, flags), voice client, requests in flight and
\* submitted completions unchanged.
C14_GuildsIndependent ==
    [][\A h \in Guilds : h # lastOp'.guild => GuildState(h)' = GuildState(h)]_vars

\* C14 witness: guild 1 is playing a source with another one pending while
\* the last step started a source for guild 2.
C14_Witness ==
    /\ lastOp.op = "play" /\ lastOp.guild = 2
    /\ Playing(2) = lastOp.track
    /\ Playing(1) # None
    /\ QueueOf(1).current = Playing(1)
    /\ Len(QueueOf(1).queue) = 1

\* C15 (as claimed): while no connection has been lost, whenever a guild's
\* client is playing a source, that source is the current of the guild's
\* queue.
C15_CurrentIsPlaying ==
    ndisc = 0 =>
        \A g \in Guilds : Playing(g) # None => QueueOf(g).current = Playing(g)

\* C17 (as claimed): while no connection has been lost, a source that
\* play_next removes from pending is started: after the step the guild's
\* client is playing it.
C17_PoppedIsStarted ==
    (ndisc = 0 /\ lastOp.op = "play_next" /\ lastOp.ret # None) =>
        Playing(lastOp.guild) = lastOp.ret

\* C18 (as claimed): a request's source is started at its play-or-enqueue
\* decision only when no source accepted earlier is still waiting in pending;
\* stated for the decisions taken with no completion of the guild submitted
\* and no connection lost, which leaves the error completions.
C18_StartsInAcceptanceOrder ==
    (lastOp.op = "play" /\ ndisc = 0
        /\ \A s \in scheduled : s.guild # lastOp.guild)
    => QueueOf(lastOp.guild).queue = <<>>

\* C19: the play-or-enqueue decision and the start are one step taken after
\* resolution. A request resolved on an idle session (client connected and
\* idle, pending empty) starts its source and makes it current; when the
\* next request of the same guild is resolved right after it, it is
\* enqueued: the source resolved first is still the one playing and current,
\* and the other is the only element of pending, whichever of the two
\* requests was issued first.
C19_FirstResolvedPlays ==
    [][\A r \in reqs \ reqs' :
          LET g == r.guild IN
          (r.client = "live" /\ Decided(lastOp'.op) /\ QueueOf(g).queue = <<>>
              /\ voice_clients[g].connected) =>
             /\ Playing(g) = None =>
                   /\ lastOp'.op = "play"
                   /\ voice_clients'[g].playing = r.id
                   /\ queues'[g].current = r.id
                   /\ queues'[g].queue = <<>>
             /\ (lastOp.op = "play" /\ lastOp.guild = g) =>
                   /\ lastOp'.op = "enqueue"
                   /\ voice_clients'[g].playing = lastOp.track
                   /\ queues'[g].current = lastOp.track
                   /\ queues'[g].queue = <<r.id>>
      ]_vars

\* C19 witness: two requests of guild 1 were resolving together on an idle
\* session; the one issued second was resolved first and is playing and
\* current, the one issued first was resolved next and is alone in pending.
C19_Witness ==
    /\ lastOp.op = "enqueue" /\ lastOp.guild = 1 /\ lastOp.track = 1
    /\ Playing(1) = 2
    /\ QueueOf(1).current = 2
    /\ QueueOf(1).queue = <<1>>
    /\ scheduled = {}

=============================================================================
